---- MODULE Spec2Model ----
(***************************************************************************)
(* Payment state machine of alx_travel_app (listings/views.py):            *)
(* InitiatePaymentView.post and VerifyPaymentView.get running as           *)
(* concurrent requests over the persisted Booking and Payment tables and   *)
(* the Celery queue of send_payment_confirmation_email tasks.              *)
(*                                                                         *)
(* Every request is a sequence of steps; a step is one access to the       *)
(* database, the gateway or the broker, so that requests interleave where  *)
(* the code lets them (Django's default autocommit: every save() is its    *)
(* own transaction; the views use no transaction.atomic and no             *)
(* select_for_update).                                                     *)
(***************************************************************************)
EXTENDS Integers, Sequences, FiniteSets, TLC

\* ---------------------------------------------------------------- bounds
\* Number of requests served in a behaviour (each is an Initiate or a Verify).
NReq == 3
\* Number of Booking rows in the database.
NBookings == 2

\* Dates are day numbers 1..MaxDay.
MaxDay == 3
\* Listing.max_guests of a row is in 1..MaxGuests.
MaxGuests == 2
\* Number of Listing rows in the database.
NListings == 1
\* Number of users that write reviews.
NUsers == 3
\* Number of Review rows the table is let grow to.
MaxReviews == 3

Reqs == 1..NReq
ListingIds == 1..NListings
UserIds == 1..NUsers
BookingIds == 1..NBookings
\* booking_id values a caller may put in the URL: one of them names no Booking.
BookingIdInputs == 1..(NBookings + 1)
\* transaction ids: uuid4 values, numbered in the order they are generated.
\* Every Initiate generates one, so there are at most NReq of them.
TxIds == 1..NReq
\* tx_ref values a caller may put in the URL: the ids generated so far and
\* one id that no Initiate has generated.
TxIdInputs(generated) == {t \in TxIds : t <= generated + 1}

\* ------------------------------------------------------------ the tables
\* models.py Booking.STATUS_CHOICES
BOOKING_STATUS_CHOICES == {"pending", "confirmed", "cancelled", "completed"}
\* models.py Payment.STATUS_CHOICES
PAYMENT_STATUS_CHOICES == {"Pending", "Completed", "Failed"}
\* the states the Payment state machine ends in
TerminalStatus == PAYMENT_STATUS_CHOICES \ {"Pending"}

\* Booking.total_price of the rows: positive, different per row.
TotalPrice(b) == 100 * b

\* local variables of a request hold these before they are assigned
NoBooking ==
    [id |-> 0, status |-> "none", total_price |-> 0,
     listing |-> 0, check_in |-> 0, check_out |-> 0, number_of_guests |-> 0]
NoPayment == [transaction_id |-> 0, booking_id |-> 0, amount |-> 0, status |-> "none"]

VARIABLES
    bookings,   \* Booking table: id -> [status, total_price, listing, check_in,
                \*                       check_out, number_of_guests]
    listings,   \* Listing table: id -> [max_guests]
    reviews,    \* Review table: the rows [listing, guest, rating] in id order
    outcome,    \* what the last attempt to create a Review came to
    call,       \* the last read-only request or task: its position, arguments
                \* and return value
    resp,       \* status code of the last Listing/Booking write request
    payments,   \* Payment table: transaction_id -> [booking_id, amount, status]
    queue,      \* Celery broker queue: the booking ids of the tasks enqueued
    nextTx,     \* number of uuid4 values generated so far
    req         \* the requests: position in the view and local variables

\* no read-only request or task has run
NoCall == [op |-> "none", pc |-> "done"]

vars == <<bookings, listings, reviews, outcome, call, resp, payments, queue, nextTx, req>>

\* A request not yet received.
IdleReq ==
    [pc |-> "idle", kind |-> "none", tx_ref |-> 0,
     booking |-> NoBooking, payment |-> NoPayment,
     data |-> "none", response |-> 0,
     \* history: Payment.status as read by Payment.objects.get, and what
     \* became of send_payment_confirmation_email.delay
     seen |-> "none", enq |-> "no"]

Init ==
    /\ \E st \in [BookingIds -> BOOKING_STATUS_CHOICES] :
          bookings = [b \in BookingIds |->
                        [status |-> st[b], total_price |-> TotalPrice(b),
                         listing |-> 1, check_in |-> 1, check_out |-> MaxDay,
                         number_of_guests |-> 1]]
    /\ listings = [l \in ListingIds |-> [max_guests |-> MaxGuests]]
    /\ reviews = << >>
    /\ outcome = "none"
    /\ call = NoCall
    /\ resp = 0
    /\ payments = << >>
    /\ queue = << >>
    /\ nextTx = 0
    /\ req = [r \in Reqs |-> IdleReq]

\* ------------------------------------------------------- ORM operations
\* Booking.objects.get(id=booking_id): the row as a local object.
GetBooking(booking_id) ==
    [id |-> booking_id,
     status |-> bookings[booking_id].status,
     total_price |-> bookings[booking_id].total_price,
     listing |-> bookings[booking_id].listing,
     check_in |-> bookings[booking_id].check_in,
     check_out |-> bookings[booking_id].check_out,
     number_of_guests |-> bookings[booking_id].number_of_guests]

\* Payment.objects.get(transaction_id=tx_ref): the row as a local object.
GetPayment(tx_ref) ==
    [transaction_id |-> tx_ref,
     booking_id |-> payments[tx_ref].booking_id,
     amount |-> payments[tx_ref].amount,
     status |-> payments[tx_ref].status]

\* CreatePayment with amount=booking.total_price left out.
CreatePayment_NoAmount(booking, tx_ref) ==
    payments @@ (tx_ref :> [booking_id |-> booking.id,
                            amount |-> 0,
                            status |-> "Pending"])

\* Payment.objects.create(booking=booking, transaction_id=tx_ref,
\*                        amount=booking.total_price, status="Pending")
CreatePayment(booking, tx_ref) ==
    payments @@ (tx_ref :> [booking_id |-> booking.id,
                            amount |-> booking.total_price,
                            status |-> "Pending"])

\* payment.save(): Model.save() writes every field of the local object.
SavePayment(payment) ==
    [payments EXCEPT ![payment.transaction_id] =
        [booking_id |-> payment.booking_id,
         amount |-> payment.amount,
         status |-> payment.status]]

\* payment.booking.save(): every field of the local Booking object.
SaveBooking(booking) ==
    [bookings EXCEPT ![booking.id] =
        [status |-> booking.status, total_price |-> booking.total_price,
         listing |-> booking.listing, check_in |-> booking.check_in,
         check_out |-> booking.check_out,
         number_of_guests |-> booking.number_of_guests]]

\* VerifiedStatus with the else branch assigning the success status.
VerifiedStatus_AlwaysCompleted(data) == "Completed"

\* The Payment.status the Verify view assigns for the gateway's data["status"].
VerifiedStatus(data) == IF data = "success" THEN "Completed" ELSE "Failed"

\* Delay with the task lost: nothing reaches the queue.
Delay_Dropped(booking_id) == queue

\* send_payment_confirmation_email.delay(booking_id): one task on the queue.
Delay(booking_id) == Append(queue, booking_id)

\* Response(..., status=code): the request is over and its local objects are
\* gone.
Respond(r, code) ==
    [req[r] EXCEPT !.pc = "done", !.response = code,
                   !.booking = NoBooking, !.payment = NoPayment]

\* Requests are numbered in the order the server receives them.
Arrives(r) ==
    /\ req[r].pc = "idle"
    /\ \A q \in Reqs : q < r => req[q].pc # "idle"

\* ------------------------------------------- InitiatePaymentView.post
\* InitiateNotFound with Booking.DoesNotExist not handled as a 404: the view
\* goes on to the gateway with an empty Booking.
InitiateNotFound_GoesOn(r, booking_id) ==
    /\ Arrives(r)
    /\ booking_id \notin DOMAIN bookings
    /\ nextTx' = nextTx + 1
    /\ req' = [req EXCEPT ![r] =
                 [@ EXCEPT !.pc = "init_gateway", !.kind = "initiate",
                           !.booking = [NoBooking EXCEPT !.id = booking_id],
                           !.tx_ref = nextTx + 1]]
    /\ UNCHANGED <<listings, reviews, outcome, call, resp, bookings, payments, queue>>

\* Booking.objects.get raises Booking.DoesNotExist: 404.
InitiateNotFound(r, booking_id) ==
    /\ Arrives(r)
    /\ booking_id \notin DOMAIN bookings
    /\ req' = [req EXCEPT ![r] =
                 [Respond(r, 404) EXCEPT !.kind = "initiate"]]
    /\ UNCHANGED <<listings, reviews, outcome, call, resp, bookings, payments, queue, nextTx>>

\* The Booking is read, tx_ref = str(uuid.uuid4()), and the request is sent to
\* the gateway. uuid4 is taken never to repeat a value: the ids are numbered
\* in the order they are generated.
InitiateStart(r, booking_id) ==
    /\ Arrives(r)
    /\ booking_id \in DOMAIN bookings
    /\ nextTx' = nextTx + 1
    /\ req' = [req EXCEPT ![r] =
                 [@ EXCEPT !.pc = "init_gateway", !.kind = "initiate",
                           !.booking = GetBooking(booking_id),
                           !.tx_ref = nextTx + 1]]
    /\ UNCHANGED <<listings, reviews, outcome, call, resp, bookings, payments, queue>>

\* data["status"] == "success": the Payment is created, 200.
InitiateGatewaySuccess(r) ==
    /\ req[r].pc = "init_gateway"
    /\ payments' = CreatePayment(req[r].booking, req[r].tx_ref)
    /\ req' = [req EXCEPT ![r] = [Respond(r, 200) EXCEPT !.data = "success"]]
    /\ UNCHANGED <<listings, reviews, outcome, call, resp, bookings, queue, nextTx>>

\* InitiateGatewayFailure with the Payment created before the status is tested.
InitiateGatewayFailure_Persists(r) ==
    /\ req[r].pc = "init_gateway"
    /\ payments' = CreatePayment(req[r].booking, req[r].tx_ref)
    /\ req' = [req EXCEPT ![r] = [Respond(r, 400) EXCEPT !.data = "failed"]]
    /\ UNCHANGED <<listings, reviews, outcome, call, resp, bookings, queue, nextTx>>

\* any other data["status"]: 400 with the gateway's payload.
InitiateGatewayFailure(r) ==
    /\ req[r].pc = "init_gateway"
    /\ req' = [req EXCEPT ![r] = [Respond(r, 400) EXCEPT !.data = "failed"]]
    /\ UNCHANGED <<listings, reviews, outcome, call, resp, bookings, payments, queue, nextTx>>

\* requests.post, response.json() or data["status"] raises: 500.
InitiateGatewayError(r) ==
    /\ req[r].pc = "init_gateway"
    /\ req' = [req EXCEPT ![r] = [Respond(r, 500) EXCEPT !.data = "error"]]
    /\ UNCHANGED <<listings, reviews, outcome, call, resp, bookings, payments, queue, nextTx>>

\* ---------------------------------------------- VerifyPaymentView.get
\* VerifyNotFound with the gateway asked before the Payment is looked up.
VerifyNotFound_AsksGateway(r, tx_ref) ==
    /\ Arrives(r)
    /\ tx_ref \notin DOMAIN payments
    /\ req' = [req EXCEPT ![r] =
                 [Respond(r, 404) EXCEPT !.kind = "verify", !.tx_ref = tx_ref,
                                         !.data = "success"]]
    /\ UNCHANGED <<listings, reviews, outcome, call, resp, bookings, payments, queue, nextTx>>

\* Payment.objects.get raises Payment.DoesNotExist: 404.
VerifyNotFound(r, tx_ref) ==
    /\ Arrives(r)
    /\ tx_ref \notin DOMAIN payments
    /\ req' = [req EXCEPT ![r] =
                 [Respond(r, 404) EXCEPT !.kind = "verify", !.tx_ref = tx_ref]]
    /\ UNCHANGED <<listings, reviews, outcome, call, resp, bookings, payments, queue, nextTx>>

\* The Payment is read and the request is sent to the gateway. The view does
\* not look at payment.status.
VerifyStart(r, tx_ref) ==
    /\ Arrives(r)
    /\ tx_ref \in DOMAIN payments
    /\ req' = [req EXCEPT ![r] =
                 [@ EXCEPT !.pc = "verify_gateway", !.kind = "verify",
                           !.tx_ref = tx_ref,
                           !.payment = GetPayment(tx_ref),
                           !.seen = payments[tx_ref].status]]
    /\ UNCHANGED <<listings, reviews, outcome, call, resp, bookings, payments, queue, nextTx>>

\* The gateway answered with a status: payment.status is assigned and the
\* object saved. On success the view goes on to the Booking; otherwise 400.
VerifyGatewayAnswer(r, data) ==
    /\ req[r].pc = "verify_gateway"
    /\ LET payment == [req[r].payment EXCEPT !.status = VerifiedStatus(data)]
       IN /\ payments' = SavePayment(payment)
          /\ req' = [req EXCEPT ![r] =
                       IF data = "success"
                       THEN [@ EXCEPT !.pc = "load_booking", !.data = data,
                                      !.payment = payment]
                       ELSE [Respond(r, 400) EXCEPT !.data = data]]
    /\ UNCHANGED <<listings, reviews, outcome, call, resp, bookings, queue, nextTx>>

VerifyGatewaySuccess(r) == VerifyGatewayAnswer(r, "success")

VerifyGatewayFailure(r) == VerifyGatewayAnswer(r, "failed")

\* VerifyGatewayError with the except clause marking the Payment Failed.
VerifyGatewayError_MarksFailed(r) ==
    /\ req[r].pc = "verify_gateway"
    /\ payments' = SavePayment([req[r].payment EXCEPT !.status = "Failed"])
    /\ req' = [req EXCEPT ![r] = [Respond(r, 500) EXCEPT !.data = "error"]]
    /\ UNCHANGED <<listings, reviews, outcome, call, resp, bookings, queue, nextTx>>

\* requests.get, response.json() or data["status"] raises: 500.
VerifyGatewayError(r) ==
    /\ req[r].pc = "verify_gateway"
    /\ req' = [req EXCEPT ![r] = [Respond(r, 500) EXCEPT !.data = "error"]]
    /\ UNCHANGED <<listings, reviews, outcome, call, resp, bookings, payments, queue, nextTx>>

\* VerifyLoadBooking that confirms only a Booking that is pending.
VerifyLoadBooking_OnlyPending(r) ==
    /\ req[r].pc = "load_booking"
    /\ req' = [req EXCEPT ![r] =
                 [@ EXCEPT !.pc = "save_booking",
                           !.booking =
                              LET booking == GetBooking(req[r].payment.booking_id)
                              IN IF booking.status = "pending"
                                 THEN [booking EXCEPT !.status = "confirmed"]
                                 ELSE booking]]
    /\ UNCHANGED <<listings, reviews, outcome, call, resp, bookings, payments, queue, nextTx>>

\* payment.booking: the related Booking is fetched on first access, and its
\* status assigned.
VerifyLoadBooking(r) ==
    /\ req[r].pc = "load_booking"
    /\ req' = [req EXCEPT ![r] =
                 [@ EXCEPT !.pc = "save_booking",
                           !.booking = [GetBooking(req[r].payment.booking_id)
                                          EXCEPT !.status = "confirmed"]]]
    /\ UNCHANGED <<listings, reviews, outcome, call, resp, bookings, payments, queue, nextTx>>

\* VerifySaveBooking that goes on to .delay without saving the Booking.
VerifySaveBooking_NotSaved(r) ==
    /\ req[r].pc = "save_booking"
    /\ req' = [req EXCEPT ![r] = [@ EXCEPT !.pc = "enqueue"]]
    /\ UNCHANGED <<listings, reviews, outcome, call, resp, bookings, payments, queue, nextTx>>

\* payment.booking.save()
VerifySaveBooking(r) ==
    /\ req[r].pc = "save_booking"
    /\ bookings' = SaveBooking(req[r].booking)
    /\ req' = [req EXCEPT ![r] = [@ EXCEPT !.pc = "enqueue"]]
    /\ UNCHANGED <<listings, reviews, outcome, call, resp, payments, queue, nextTx>>

\* payment.booking.save() raises (the database is unreachable, the statement
\* times out): the except clause answers 500. payment.save() is committed.
VerifySaveBookingError(r) ==
    /\ req[r].pc = "save_booking"
    /\ req' = [req EXCEPT ![r] = Respond(r, 500)]
    /\ UNCHANGED <<listings, reviews, outcome, call, resp, bookings, payments, queue, nextTx>>

\* send_payment_confirmation_email.delay(payment.booking.id), then 200.
VerifyEnqueue(r) ==
    /\ req[r].pc = "enqueue"
    /\ queue' = Delay(req[r].booking.id)
    /\ req' = [req EXCEPT ![r] = [Respond(r, 200) EXCEPT !.enq = "ok"]]
    /\ UNCHANGED <<listings, reviews, outcome, call, resp, bookings, payments, nextTx>>

\* .delay raises (the broker is unreachable): the except clause answers 500.
VerifyEnqueueError(r) ==
    /\ req[r].pc = "enqueue"
    /\ req' = [req EXCEPT ![r] = [Respond(r, 500) EXCEPT !.enq = "failed"]]
    /\ UNCHANGED <<listings, reviews, outcome, call, resp, bookings, payments, queue, nextTx>>

Next ==
    \/ \E r \in Reqs, booking_id \in BookingIdInputs : InitiateNotFound(r, booking_id)
    \/ \E r \in Reqs, booking_id \in BookingIdInputs : InitiateStart(r, booking_id)
    \/ \E r \in Reqs : InitiateGatewaySuccess(r)
    \/ \E r \in Reqs : InitiateGatewayFailure(r)
    \/ \E r \in Reqs : InitiateGatewayError(r)
    \/ \E r \in Reqs, tx_ref \in TxIdInputs(nextTx) : VerifyNotFound(r, tx_ref)
    \/ \E r \in Reqs, tx_ref \in TxIdInputs(nextTx) : VerifyStart(r, tx_ref)
    \/ \E r \in Reqs : VerifyGatewaySuccess(r)
    \/ \E r \in Reqs : VerifyGatewayFailure(r)
    \/ \E r \in Reqs : VerifyGatewayError(r)
    \/ \E r \in Reqs : VerifyLoadBooking(r)
    \/ \E r \in Reqs : VerifySaveBooking(r)
    \/ \E r \in Reqs : VerifySaveBookingError(r)
    \/ \E r \in Reqs : VerifyEnqueue(r)
    \/ \E r \in Reqs : VerifyEnqueueError(r)

Spec == Init /\ [][Next]_vars

\* ------------------------------------------- BookingSerializer, Booking
\* data.get(name) of a field the request does not carry
None == -1

\* the fields a Booking request may carry (guest_id, which no claim reads, is
\* left out); status "none" is a request without status
RequestData(check_ins, check_outs, guests, listing_ids, prices, statuses) ==
    [check_in : check_ins, check_out : check_outs, number_of_guests : guests,
     listing : listing_ids, total_price : prices, status : statuses]

\* A field of the serializer is refused before validate() runs: a required
\* field is missing (status has a default and is not required), listing_id
\* names no Listing, or validate_total_price finds value <= 0.
FieldErrors(data, partial) ==
    \/ /\ ~partial
       /\ None \in {data.check_in, data.check_out, data.number_of_guests,
                    data.listing, data.total_price}
    \/ data.listing # None /\ data.listing \notin DOMAIN listings
    \/ data.total_price # None /\ data.total_price <= 0

\* BookingSerializer.validate with check_out < check_in as the test.
SerializerValidate_AllowsEqual(data) ==
    IF data.check_out = None \/ data.check_in = None THEN "TypeError"
    ELSE IF data.check_out < data.check_in THEN "ValidationError"
    ELSE IF data.listing # None /\ data.number_of_guests = None THEN "TypeError"
    ELSE IF data.listing # None
            /\ data.number_of_guests > listings[data.listing].max_guests
         THEN "ValidationError"
    ELSE IF data.number_of_guests = None THEN "TypeError"
    ELSE IF data.number_of_guests <= 0 THEN "ValidationError"
    ELSE "ok"

\* BookingSerializer.validate(data), statement by statement. The values come
\* from data.get: comparing None with <= or > raises TypeError, and
\* "listing and ..." skips the capacity test when the request has no listing.
SerializerValidate(data) ==
    IF data.check_out = None \/ data.check_in = None THEN "TypeError"
    ELSE IF data.check_out <= data.check_in THEN "ValidationError"
    ELSE IF data.listing # None /\ data.number_of_guests = None THEN "TypeError"
    ELSE IF data.listing # None
            /\ data.number_of_guests > listings[data.listing].max_guests
         THEN "ValidationError"
    ELSE IF data.number_of_guests = None THEN "TypeError"
    ELSE IF data.number_of_guests <= 0 THEN "ValidationError"
    ELSE "ok"

\* serializer.is_valid(raise_exception=True) as the status code it leads to:
\* 400 for a validation error, 500 for the unhandled TypeError, 0 to go on.
IsValid(data, partial) ==
    IF FieldErrors(data, partial) THEN 400
    ELSE LET v == SerializerValidate(data)
         IN IF v = "ok" THEN 0 ELSE IF v = "ValidationError" THEN 400 ELSE 500

\* Booking.clean(): the model's own date-range and capacity test.
Clean(booking) ==
    /\ ~(booking.check_out <= booking.check_in)
    /\ ~(booking.number_of_guests > listings[booking.listing].max_guests)

\* ModelSerializer.update: the fields the request carries are assigned to the
\* instance; the others keep the instance's values.
Assign(row, data) ==
    [status |-> IF data.status = "none" THEN row.status ELSE data.status,
     total_price |-> IF data.total_price = None THEN row.total_price ELSE data.total_price,
     listing |-> IF data.listing = None THEN row.listing ELSE data.listing,
     check_in |-> IF data.check_in = None THEN row.check_in ELSE data.check_in,
     check_out |-> IF data.check_out = None THEN row.check_out ELSE data.check_out,
     number_of_guests |-> IF data.number_of_guests = None THEN row.number_of_guests
                          ELSE data.number_of_guests]

\* a new Booking before the request's fields are assigned: status has the
\* model's default, and every other field is required
NewRow == [status |-> "pending", total_price |-> None, listing |-> None,
           check_in |-> None, check_out |-> None, number_of_guests |-> None]

\* the primary key of the next row of a table whose rows are never deleted
NextId(table) == Cardinality(DOMAIN table) + 1

pay == <<payments, queue, nextTx, req>>

\* BookingViewSet.create: POST /api/bookings/
BookingCreate(data) ==
    /\ NextId(bookings) <= NBookings + 1
    /\ LET code == IsValid(data, FALSE)
       IN IF code = 0
          THEN /\ bookings' = bookings @@ (NextId(bookings) :> Assign(NewRow, data))
               /\ resp' = 201
          ELSE /\ bookings' = bookings
               /\ resp' = code
    /\ UNCHANGED <<listings, reviews, outcome, call, pay>>

\* BookingViewSet.update / partial_update: PUT or PATCH /api/bookings/{id}/
BookingWrite(id, data, partial) ==
    /\ id \in DOMAIN bookings
    /\ LET code == IsValid(data, partial)
       IN IF code = 0
          THEN /\ bookings' = [bookings EXCEPT ![id] = Assign(@, data)]
               /\ resp' = 200
          ELSE /\ bookings' = bookings
               /\ resp' = code
    /\ UNCHANGED <<listings, reviews, outcome, call, pay>>

BookingUpdate(id, data) == BookingWrite(id, data, FALSE)

BookingPartialUpdate(id, data) == BookingWrite(id, data, TRUE)

\* ListingViewSet.update with ListingSerializer.validate:
\* data.get("max_guests", 0) <= 0 is refused, nothing else is tested.
ListingUpdate(id, max_guests) ==
    /\ id \in DOMAIN listings
    /\ IF max_guests <= 0
       THEN /\ listings' = listings
            /\ resp' = 400
       ELSE /\ listings' = [listings EXCEPT ![id] = [max_guests |-> max_guests]]
            /\ resp' = 200
    /\ UNCHANGED <<bookings, reviews, outcome, call, pay>>

\* The requests enumerated for Booking id. Each family varies some fields and
\* takes the others valid: None is a field the request does not carry.
\* The dates, with or without the guest count and the listing:
DateData(id) ==
    RequestData({None} \cup 1..MaxDay, {None} \cup 1..MaxDay, {None, 1}, {None, 1},
                {TotalPrice(id)}, {"none"})
\* the guest count and the listing:
GuestData(id) ==
    RequestData({1}, {MaxDay}, {None} \cup 0..(MaxGuests + 1),
                {None} \cup ListingIds, {TotalPrice(id)}, {"none"})
\* the status and the price:
StatusData(id) ==
    RequestData({1}, {MaxDay}, {1}, {1}, {0, TotalPrice(id)},
                {"none"} \cup BOOKING_STATUS_CHOICES)

BookingData(id) == GuestData(id) \cup StatusData(id)

NextBooking ==
    \/ \E data \in BookingData(NextId(bookings)) : BookingCreate(data)
    \/ \E id \in DOMAIN bookings :
          \E data \in BookingData(id) : BookingUpdate(id, data)
    \/ \E id \in DOMAIN bookings :
          \E data \in BookingData(id) : BookingPartialUpdate(id, data)
    \/ \E id \in ListingIds, max_guests \in 0..MaxGuests : ListingUpdate(id, max_guests)

NextDates ==
    \/ \E data \in DateData(NextId(bookings)) : BookingCreate(data)
    \/ \E id \in DOMAIN bookings :
          \E data \in DateData(id) : BookingUpdate(id, data)
    \/ \E id \in DOMAIN bookings :
          \E data \in DateData(id) : BookingPartialUpdate(id, data)

\* The database as seeded for the write requests: every Booking has the
\* model's default status.
InitPending == Init /\ \A b \in BookingIds : bookings[b].status = "pending"

\* The Booking and Listing write requests that vary guest count, listing,
\* status and price.
BookingSpec == InitPending /\ [][NextBooking]_vars

\* The Booking write requests with every combination of dates, present or not.
DateSpec == InitPending /\ [][NextDates]_vars

\* ------------------------------------------- Review
\* the ratings the seeding command gives
Ratings == {4, 5}

ReviewRows == [listing : ListingIds, guest : UserIds, rating : Ratings]

\* Review.objects.filter(listing=..., guest=...).exists()
HasReview(listing, guest) ==
    \E i \in DOMAIN reviews : reviews[i].listing = listing /\ reviews[i].guest = guest

\* ReviewInsert with no unique_together in Meta.
ReviewInsert_NoConstraint(row) ==
    /\ Len(reviews) < MaxReviews
    /\ reviews' = Append(reviews, row)
    /\ outcome' = "created"

\* INSERT of a Review row: the database's unique (listing, guest) constraint
\* refuses a second row of the pair with IntegrityError.
ReviewInsert(row) ==
    /\ Len(reviews) < MaxReviews \/ HasReview(row.listing, row.guest)
    /\ IF HasReview(row.listing, row.guest)
       THEN /\ reviews' = reviews
            /\ outcome' = "IntegrityError"
       ELSE /\ reviews' = Append(reviews, row)
            /\ outcome' = "created"

\* Review.objects.create(**row), as any code that writes through the model does
ReviewCreate(row) ==
    /\ ReviewInsert(row)
    /\ UNCHANGED <<bookings, listings, call, resp, pay>>

\* Review.objects.get_or_create(listing=, guest=, defaults=row) of the seeding
\* command: the row of the pair when there is one, a create otherwise.
ReviewGetOrCreate(row) ==
    /\ IF HasReview(row.listing, row.guest)
       THEN /\ reviews' = reviews
            /\ outcome' = "existing"
       ELSE ReviewInsert(row)
    /\ UNCHANGED <<bookings, listings, call, resp, pay>>

NextReview ==
    \/ \E row \in ReviewRows : ReviewCreate(row)
    \/ \E row \in ReviewRows : ReviewGetOrCreate(row)

\* The writes of the Review table.
ReviewSpec == InitPending /\ [][NextReview]_vars

\* ------------------------------------------- Listing.average_rating
\* self.reviews.all(): the Review rows that reference the Listing
ReviewsOf(listing) == SelectSeq(reviews, LAMBDA row : row.listing = listing)

RECURSIVE SumRatings(_)
SumRatings(rows) ==
    IF rows = << >> THEN 0 ELSE Head(rows).rating + SumRatings(Tail(rows))

\* the property's None; a rating is the fraction num / den
NoRating == [num |-> 0, den |-> 0]

\* Avg with the quotient cut to an integer.
Avg_IntegerDivision(rows) ==
    IF rows = << >> THEN NoRating
    ELSE [num |-> SumRatings(rows) \div Len(rows), den |-> 1]

\* aggregate(models.Avg("rating"))["rating__avg"]: SQL AVG, the sum of the
\* ratings over their number, NULL over no rows
Avg(rows) ==
    IF rows = << >> THEN NoRating
    ELSE [num |-> SumRatings(rows), den |-> Len(rows)]

\* reviews.exists(): the first query of the property. With no row the
\* property returns None.
AverageRatingExists(listing) ==
    /\ call.pc = "done"
    /\ call' = IF ReviewsOf(listing) # << >>
               THEN [op |-> "average_rating", pc |-> "aggregate", listing |-> listing]
               ELSE [op |-> "average_rating", pc |-> "done", listing |-> listing,
                     value |-> NoRating]
    /\ UNCHANGED <<bookings, listings, reviews, outcome, resp, pay>>

\* reviews.aggregate(...): the second query, over the rows there are now
AverageRatingAggregate ==
    /\ call.op = "average_rating" /\ call.pc = "aggregate"
    /\ call' = [op |-> "average_rating", pc |-> "done", listing |-> call.listing,
                value |-> Avg(ReviewsOf(call.listing))]
    /\ UNCHANGED <<bookings, listings, reviews, outcome, resp, pay>>

\* review.delete() of the i-th row
ReviewDelete(i) ==
    /\ i \in DOMAIN reviews
    /\ reviews' = SubSeq(reviews, 1, i - 1) \o SubSeq(reviews, i + 1, Len(reviews))
    /\ outcome' = "deleted"
    /\ UNCHANGED <<bookings, listings, call, resp, pay>>

\* the Reviews written while the rating is read: those of two guests, as many
\* as write the seeding command's reviews
RatingRows == [listing : ListingIds, guest : {1, 2}, rating : Ratings]

NextRating ==
    \/ \E row \in RatingRows : ReviewCreate(row)
    \/ \E i \in 1..MaxReviews : ReviewDelete(i)
    \/ \E listing \in ListingIds : AverageRatingExists(listing)
    \/ AverageRatingAggregate

\* Reviews are created and deleted while average_rating is read.
RatingSpec == InitPending /\ [][NextRating]_vars

\* ------------------------------------------- HealthCheckView
\* HealthCheck answering from the state of the Payment table.
HealthCheck_ChecksPayments ==
    /\ call' = [op |-> "health", pc |-> "done",
                status_code |-> IF payments = << >> THEN 200 ELSE 503,
                data |-> [status |-> IF payments = << >> THEN "ok" ELSE "error"]]
    /\ UNCHANGED <<bookings, listings, reviews, outcome, resp, pay>>

\* HealthCheckView.get: Response({"status": "ok"}), whose status code is the
\* default 200; the view reads and writes nothing.
HealthCheck ==
    /\ call' = [op |-> "health", pc |-> "done", status_code |-> 200,
                data |-> [status |-> "ok"]]
    /\ UNCHANGED <<bookings, listings, reviews, outcome, resp, pay>>

NextHealth ==
    \/ Next
    \/ HealthCheck

\* The health check beside the payment flow.
HealthSpec == InitPending /\ [][NextHealth]_vars

\* ------------------------------------------- send_payment_confirmation_email
\* Booking.guest of the row with this id: the guest is set when the Booking is
\* created and no request of the payment flow changes it
GuestOf(booking_id) == ((booking_id - 1) % NUsers) + 1

\* what can go wrong in a run of the task: nothing, the database query raises,
\* send_mail raises
TaskFaults == {"none", "database", "mail"}

\* SendPaymentConfirmationEmail that mails before it looks the Booking up.
SendPaymentConfirmationEmail_MailsFirst(booking_id, fault) ==
    IF fault = "mail" THEN [result |-> "SMTPException", mails |-> << >>]
    ELSE IF fault = "database"
    THEN [result |-> "OperationalError", mails |-> <<[to |-> GuestOf(booking_id)]>>]
    ELSE IF booking_id \notin DOMAIN bookings
    THEN [result |-> "Booking not found", mails |-> <<[to |-> GuestOf(booking_id)]>>]
    ELSE [result |-> "Email sent", mails |-> <<[to |-> GuestOf(booking_id)]>>]

\* send_payment_confirmation_email(booking_id): the value returned and the
\* mails handed to the mail transport. Booking.DoesNotExist and every other
\* Exception are caught and turned into the return value.
SendPaymentConfirmationEmail(booking_id, fault) ==
    IF fault = "database" THEN [result |-> "OperationalError", mails |-> << >>]
    ELSE IF booking_id \notin DOMAIN bookings
    THEN [result |-> "Booking not found", mails |-> << >>]
    ELSE IF fault = "mail" THEN [result |-> "SMTPException", mails |-> << >>]
    ELSE [result |-> "Email sent", mails |-> <<[to |-> GuestOf(booking_id)]>>]

\* the record of a run of the task
TaskCallRecord(booking_id, fault) ==
    LET ret == SendPaymentConfirmationEmail(booking_id, fault)
    IN [op |-> "task", pc |-> "done", booking_id |-> booking_id,
        result |-> ret.result, mails |-> ret.mails]

\* A Celery worker takes the oldest task of the queue and runs it.
TaskRun(fault) ==
    /\ queue # << >>
    /\ call' = TaskCallRecord(Head(queue), fault)
    /\ queue' = Tail(queue)
    /\ UNCHANGED <<bookings, listings, reviews, outcome, resp, payments, nextTx, req>>

\* The task run with the id of no Booking: the id of a row deleted since the
\* task was enqueued, or any id a caller passes.
TaskCall(booking_id, fault) ==
    /\ booking_id \notin DOMAIN bookings
    /\ call' = TaskCallRecord(booking_id, fault)
    /\ UNCHANGED <<bookings, listings, reviews, outcome, resp, pay>>

NextTask ==
    \/ Next
    \/ \E fault \in TaskFaults : TaskRun(fault)
    \/ \E booking_id \in BookingIdInputs, fault \in TaskFaults : TaskCall(booking_id, fault)

\* The payment flow with the Celery worker that runs the enqueued tasks.
TaskSpec == InitPending /\ [][NextTask]_vars

\* ------------------------------------------- payment flow, by initial status
\* The payment flow over Bookings that all start pending.
PaymentSpec == InitPending /\ [][Next]_vars

\* The database with every Booking cancelled or completed.
InitClosed == Init /\ \A b \in BookingIds : bookings[b].status \in {"cancelled", "completed"}

\* The payment flow over Bookings that all start cancelled or completed.
ClosedSpec == InitClosed /\ [][Next]_vars

\* ------------------------------------------- progress of a request
\* The statements a worker executes by itself once the gateway has answered:
\* a worker that can run its next statement does run it.
WorkerStep(r) ==
    \/ VerifyLoadBooking(r)
    \/ VerifySaveBooking(r)
    \/ VerifySaveBookingError(r)
    \/ VerifyEnqueue(r)
    \/ VerifyEnqueueError(r)

\* requests.post and requests.get are called without timeout=: the call
\* returns or raises only when the gateway answers or the connection breaks,
\* so nothing obliges the steps that follow the call ever to happen.
LiveSpec == Init /\ [][Next]_vars /\ \A r \in Reqs : WF_vars(WorkerStep(r))

\* ------------------------------------------- payment flow and Booking PATCH
\* A guest's PATCH of the guest count (with the dates the validator needs, and
\* no listing_id), as it can arrive while a Verify request is being served.
RaceData ==
    RequestData({1}, {MaxDay}, 1..(MaxGuests + 1), {None}, {None}, {"none"})

NextRace ==
    \/ Next
    \/ \E id \in DOMAIN bookings : \E data \in RaceData : BookingPartialUpdate(id, data)

\* The payment flow and the Booking PATCH requests, served by separate workers
\* over one database in autocommit mode.
RaceSpec == InitPending /\ [][NextRace]_vars

\* ------------------------------------------------------------ the claims
\* the Payments of a Booking
PaymentsOf(b) == {t \in DOMAIN payments : payments[t].booking_id = b}

\* number of tasks on the queue that carry booking id b
Tasks(b) == Cardinality({i \in DOMAIN queue : queue[i] = b})

\* the Verify requests received so far for a Payment of Booking b
VerifiesOf(b) == {q \in Reqs : req[q].kind = "verify" /\ req[q].tx_ref \in PaymentsOf(b)}

\* Request r is a Verify whose gateway call answered success and which
\* returned its 200 response, and no other Verify for a Payment of the same
\* Booking has been received.
OneVerifiedPayment(r) ==
    /\ req[r].kind = "verify"
    /\ req[r].pc = "done"
    /\ req[r].data = "success"
    /\ req[r].response = 200
    /\ VerifiesOf(payments[req[r].tx_ref].booking_id) = {r}

\* C1: after a successful Initiate and one Verify that the gateway answered
\* with success (and that returned 200), the Payment is Completed, its Booking
\* is confirmed and the queue holds exactly one task with that Booking's id.
C1_InitiateThenVerify ==
    \A r \in Reqs :
        OneVerifiedPayment(r) =>
            LET tx == req[r].tx_ref
                b == payments[tx].booking_id
            IN /\ payments[tx].status = "Completed"
               /\ bookings[b].status = "confirmed"
               /\ Tasks(b) = 1

\* C1's case: such a Verify has returned, for a Booking that had no Payment
\* before the Initiate and was not confirmed.
C1_Witness ==
    \E r \in Reqs :
        /\ OneVerifiedPayment(r)
        /\ PaymentsOf(payments[req[r].tx_ref].booking_id) = {req[r].tx_ref}
        /\ req[r].seen = "Pending"
        /\ Len(queue) = 1

\* C2: a Verify for a Payment that is already Completed makes no gateway
\* call, assigns nothing and enqueues nothing.
C2_RepeatedVerifyIsNoOp ==
    \A r \in Reqs :
        (req[r].kind = "verify" /\ req[r].seen = "Completed") =>
            /\ req[r].pc = "done"
            /\ req[r].data = "none"
            /\ req[r].enq = "no"

\* C3: of the Verify requests that read the same Payment as Pending and get
\* gateway success, exactly one makes the transition and enqueues.
C3_OneWinner ==
    \A r1, r2 \in Reqs :
        (/\ r1 # r2
         /\ req[r1].kind = "verify" /\ req[r2].kind = "verify"
         /\ req[r1].tx_ref = req[r2].tx_ref
         /\ req[r1].seen = "Pending" /\ req[r2].seen = "Pending"
         /\ req[r1].data = "success" /\ req[r2].data = "success")
        => ~(req[r1].enq = "ok" /\ req[r2].enq = "ok")

\* C4: no step changes the status of a Payment that is Completed or Failed.
C4_TerminalIsFinal ==
    [][\A t \in DOMAIN payments :
          payments[t].status \in TerminalStatus =>
              payments'[t].status = payments[t].status]_vars

\* C5: the step in which the gateway answers the Verify of a Pending Payment
\* with a status other than success makes the Payment Failed, changes no
\* Booking, enqueues nothing, and ends the request (400).
C5_FailureVerify ==
    [][\A r \in Reqs :
          (/\ req[r].pc = "verify_gateway"
           /\ req[r].seen = "Pending"
           /\ req'[r].data = "failed")
          => /\ payments'[req[r].tx_ref].status = "Failed"
             /\ bookings' = bookings
             /\ queue' = queue
             /\ req'[r].pc = "done"
             /\ req'[r].response = 400]_vars

\* C5's case: a Verify of a Pending Payment was answered with a failure.
C5_Witness ==
    \E r \in Reqs :
        /\ req[r].kind = "verify" /\ req[r].pc = "done"
        /\ req[r].seen = "Pending" /\ req[r].data = "failed"
        /\ payments[req[r].tx_ref].status = "Failed"
        /\ bookings[payments[req[r].tx_ref].booking_id].status = "pending"

\* C6: the step that makes a Payment Completed makes its Booking confirmed.
C6_AtomicCompletion ==
    [][\A t \in DOMAIN payments :
          (payments[t].status # "Completed" /\ payments'[t].status = "Completed")
          => bookings'[payments'[t].booking_id].status = "confirmed"]_vars

\* C7: a Verify whose enqueue failed still returns its success response, with
\* the Payment Completed and the Booking confirmed.
C7_EnqueueFailureSwallowed ==
    \A r \in Reqs :
        (req[r].kind = "verify" /\ req[r].enq = "failed") =>
            /\ req[r].response = 200
            /\ payments[req[r].tx_ref].status = "Completed"
            /\ bookings[payments[req[r].tx_ref].booking_id].status = "confirmed"

\* C8: the step in which the gateway call of a Verify raises (or its answer
\* has no usable status) returns an error response and changes no Payment,
\* no Booking and not the queue.
C8_TransportFailure ==
    [][\A r \in Reqs :
          (/\ req[r].pc = "verify_gateway"
           /\ req'[r].data = "error")
          => /\ payments' = payments
             /\ bookings' = bookings
             /\ queue' = queue
             /\ req'[r].pc = "done"
             /\ req'[r].response = 500]_vars

\* C8's case: the gateway call of a Verify of a Pending Payment has raised.
C8_Witness ==
    \E r \in Reqs :
        /\ req[r].kind = "verify" /\ req[r].pc = "done"
        /\ req[r].data = "error" /\ req[r].response = 500
        /\ req[r].seen = "Pending"
        /\ payments[req[r].tx_ref].status = "Pending"

\* C9: an Initiate for a Booking that has a Completed or Failed Payment is
\* rejected: it is not sent to the gateway (and so creates no Payment).
C9_RejectReinitiate ==
    [][\A r \in Reqs :
          (/\ req[r].pc = "idle"
           /\ req'[r].kind = "initiate"
           /\ \E t \in DOMAIN payments :
                 /\ payments[t].booking_id = req'[r].booking.id
                 /\ payments[t].status \in TerminalStatus)
          => req'[r].pc # "init_gateway"]_vars

\* C10: the step in which the gateway acknowledges an Initiate with success
\* adds exactly one Payment: under the request's fresh transaction id, Pending,
\* for the requested Booking, with that Booking's total price; every other
\* Payment and every Booking is as before.
C10_InitiateCreatesOne ==
    [][\A r \in Reqs :
          (/\ req[r].pc = "init_gateway"
           /\ req'[r].data = "success")
          => LET tx == req[r].tx_ref
                 b == req[r].booking.id
             IN /\ tx \notin DOMAIN payments
                /\ DOMAIN payments' = DOMAIN payments \cup {tx}
                /\ payments'[tx] = [booking_id |-> b,
                                    amount |-> bookings[b].total_price,
                                    status |-> "Pending"]
                /\ \A t \in DOMAIN payments : payments'[t] = payments[t]
                /\ bookings' = bookings]_vars

\* C10's case: an Initiate was acknowledged while another Payment existed.
C10_Witness ==
    \E r \in Reqs :
        /\ req[r].kind = "initiate" /\ req[r].pc = "done"
        /\ req[r].data = "success" /\ req[r].response = 200
        /\ req[r].tx_ref \in DOMAIN payments
        /\ Cardinality(DOMAIN payments) >= 2

\* C11: the step in which the gateway answers an Initiate with a failure
\* status returns 400, the step in which the gateway call raises returns 500,
\* and neither changes the Payment table.
C11_NoPaymentWithoutSuccess ==
    [][\A r \in Reqs :
          (/\ req[r].pc = "init_gateway"
           /\ req'[r].data \in {"failed", "error"})
          => /\ payments' = payments
             /\ req'[r].pc = "done"
             /\ req'[r].response = (IF req'[r].data = "failed" THEN 400 ELSE 500)]_vars

\* C11's case: with a Payment in the table, one Initiate was answered with a
\* failure status and another one's gateway call raised.
C11_Witness ==
    \E r1, r2 \in Reqs :
        /\ req[r1].kind = "initiate" /\ req[r1].data = "failed" /\ req[r1].response = 400
        /\ req[r2].kind = "initiate" /\ req[r2].data = "error" /\ req[r2].response = 500
        /\ Cardinality(DOMAIN payments) = 1

\* C12: an Initiate reaches the gateway only with a Booking that exists; the
\* Initiate that finds no Booking returns 404 in its first step, generates no
\* transaction id, calls no gateway and leaves the Payment table as it is.
C12_BookingNotFound ==
    [][\A r \in Reqs :
          (req[r].pc = "idle" /\ req'[r].kind = "initiate") =>
              IF req'[r].booking.id \in DOMAIN bookings
              THEN req'[r].pc = "init_gateway"
              ELSE /\ req'[r].pc = "done"
                   /\ req'[r].response = 404
                   /\ req'[r].data = "none"
                   /\ nextTx' = nextTx
                   /\ payments' = payments]_vars

\* C12's case: an Initiate for a booking id without Booking has returned,
\* while a Payment existed.
C12_Witness ==
    \E r \in Reqs :
        /\ req[r].kind = "initiate" /\ req[r].pc = "done"
        /\ req[r].response = 404
        /\ DOMAIN payments # {}

\* C13: the Verify whose transaction id matches no Payment returns 404 in its
\* first step: no gateway call, no Payment or Booking changed, nothing
\* enqueued.
C13_PaymentNotFound ==
    [][\A r \in Reqs :
          (/\ req[r].pc = "idle"
           /\ req'[r].kind = "verify"
           /\ req'[r].tx_ref \notin DOMAIN payments)
          => /\ req'[r].pc = "done"
             /\ req'[r].response = 404
             /\ req'[r].data = "none"
             /\ payments' = payments
             /\ bookings' = bookings
             /\ queue' = queue]_vars

\* C13's case: a Verify for an unknown transaction id has returned, while a
\* Payment existed.
C13_Witness ==
    \E r \in Reqs :
        /\ req[r].kind = "verify" /\ req[r].pc = "done"
        /\ req[r].response = 404
        /\ req[r].tx_ref \notin DOMAIN payments
        /\ DOMAIN payments # {}

\* C14: a Booking create or update request neither changes the status of a
\* Booking nor creates one with a status other than the default: in a system
\* where no Verify runs, every Booking keeps its status and every new Booking
\* is pending.
C14_StatusOnlyByPayment ==
    [][/\ \A b \in DOMAIN bookings : bookings'[b].status = bookings[b].status
       /\ \A b \in DOMAIN bookings' \ DOMAIN bookings :
             bookings'[b].status = "pending"]_vars

\* every persisted Booking has check-out after check-in
DateRangeOK(table) == \A b \in DOMAIN table : table[b].check_out > table[b].check_in

\* a create request with every field valid but, possibly, the dates
CreateRequest(ci, co) ==
    [check_in |-> ci, check_out |-> co, number_of_guests |-> 1, listing |-> 1,
     total_price |-> TotalPrice(NextId(bookings)), status |-> "none"]

\* C16: after every Booking create or update request every persisted Booking
\* has check-out after check-in; a create request whose check-out is not after
\* its check-in returns 400; and a request that returns an error leaves the
\* Booking table as it was.
C16_DateRange ==
    [][/\ DateRangeOK(bookings')
       /\ \A ci \in 1..MaxDay : \A co \in 1..ci : IsValid(CreateRequest(ci, co), FALSE) = 400
       /\ resp' \in {400, 500} => bookings' = bookings]_vars

\* C16's case: a Booking was created, the dates of a Booking were changed,
\* and the last request was refused.
C16_Witness ==
    /\ resp = 400
    /\ Cardinality(DOMAIN bookings) > NBookings
    /\ \E b \in DOMAIN bookings : bookings[b].check_in # 1

\* C17: every persisted Booking has a guest count no greater than the
\* max_guests of its Listing.
C17_Capacity ==
    \A b \in DOMAIN bookings :
        bookings[b].number_of_guests <= listings[bookings[b].listing].max_guests

\* r's Verify request executes payment.booking.save() in this step
SavesBooking(r) == req[r].pc = "save_booking" /\ req'[r].pc = "enqueue"

\* C15: payment.booking.save() of a Verify request changes the status of its
\* Booking and no other field: no field is overwritten with the value the
\* request read earlier.
C15_NoLostUpdate ==
    [][\A r \in Reqs :
          SavesBooking(r) =>
             bookings' = [bookings EXCEPT ![req[r].booking.id].status = "confirmed"]]_vars

\* C18: the Booking row that payment.booking.save() of a Verify request
\* persists passes Booking.clean().
C18_CleanAtSave ==
    [][\A r \in Reqs :
          SavesBooking(r) => Clean(bookings'[req[r].booking.id])]_vars

\* C19: every Initiate and every Verify request being served is eventually
\* answered.
C19_EventuallyResponds ==
    \A r \in Reqs : (req[r].pc \notin {"idle", "done"}) ~> (req[r].pc = "done")

\* C20: no two persisted Reviews share both Listing and guest; an attempt to
\* create a Review never changes a Review already persisted; a created Review
\* is of a pair that had none; and a refused attempt leaves the table as it was.
C20_OneReviewPerPair ==
    [][/\ \A i, j \in DOMAIN reviews' :
             (/\ reviews'[i].listing = reviews'[j].listing
              /\ reviews'[i].guest = reviews'[j].guest) => i = j
       /\ \A i \in DOMAIN reviews : reviews'[i] = reviews[i]
       /\ outcome' = "created" =>
             /\ Len(reviews') = Len(reviews) + 1
             /\ ~HasReview(reviews'[Len(reviews')].listing, reviews'[Len(reviews')].guest)
       /\ outcome' \in {"IntegrityError", "existing"} => reviews' = reviews]_vars

\* C20's case: a second creation attempt for a pair was refused with a Review
\* of that pair persisted.
C20_Witness ==
    /\ outcome = "IntegrityError"
    /\ Len(reviews) = MaxReviews

\* the sum over rows of den * rating - num: zero exactly when num / den is the
\* arithmetic mean of the ratings
RECURSIVE Deviations(_, _)
Deviations(rows, value) ==
    IF rows = << >> THEN 0
    ELSE (value.den * Head(rows).rating - value.num) + Deviations(Tail(rows), value)

\* C21: a read of average_rating that returns in this step returns None when
\* no Review references the Listing now, and otherwise the arithmetic mean of
\* the ratings of exactly the Reviews that reference it now.
C21_AverageRating ==
    [][(call' # call /\ call'.op = "average_rating" /\ call'.pc = "done") =>
          LET rows == SelectSeq(reviews', LAMBDA row : row.listing = call'.listing)
              value == call'.value
          IN IF rows = << >> THEN value = NoRating
             ELSE value.den > 0 /\ Deviations(rows, value) = 0]_vars

\* C21's case: a read returned 4.5 for ratings 5 and 4, as in the spec's example.
C21_Witness ==
    /\ call.op = "average_rating" /\ call.pc = "done"
    /\ call.value # NoRating
    /\ 2 * call.value.num = 9 * call.value.den
    /\ Len(reviews) = 2

\* C22: the health check can be served in every state; when it is served it
\* returns status code 200 with the payload {"status": "ok"} and changes no
\* Listing, Booking, Review or Payment.
C22_HealthCheck ==
    [][/\ ENABLED HealthCheck
       /\ (call' # call /\ call'.op = "health") =>
             /\ call'.status_code = 200
             /\ call'.data = [status |-> "ok"]
             /\ UNCHANGED <<listings, bookings, reviews, payments>>]_vars

\* C22's case: the health check was served while a Verify request was waiting
\* for the gateway, with a Payment persisted.
C22_Witness ==
    /\ call.op = "health"
    /\ payments # << >>
    /\ \E r \in Reqs : req[r].pc = "verify_gateway"

\* C24: a run of the confirmation task ends with a return value; for an id of
\* no Booking it returns "Booking not found" or an error and hands over no
\* mail; for a Booking it hands over at most one mail, addressed to the
\* Booking's guest; a mail-transport failure is the return value, with no mail
\* handed over; and the run changes no Booking and no Payment.
C24_TaskNeverRaises ==
    [][(call' # call /\ call'.op = "task") =>
          /\ call'.pc = "done"
          /\ call'.result \in {"Email sent", "Booking not found",
                               "SMTPException", "OperationalError"}
          /\ call'.booking_id \notin DOMAIN bookings =>
                /\ call'.mails = << >>
                /\ call'.result \in {"Booking not found", "OperationalError"}
          /\ Len(call'.mails) <= 1
          /\ \A i \in DOMAIN call'.mails : call'.mails[i].to = GuestOf(call'.booking_id)
          /\ call'.result = "Email sent" <=> Len(call'.mails) = 1
          /\ UNCHANGED <<bookings, payments>>]_vars

\* C24's case: the worker ran an enqueued task whose mail transport failed.
C24_Witness ==
    /\ call.op = "task"
    /\ call.result = "SMTPException"
    /\ call.booking_id \in DOMAIN bookings
    /\ \E r \in Reqs : req[r].enq = "ok"
    /\ queue = << >>

\* r's request moves to position pc in this step
MovesTo(r, pc) == req[r].pc # pc /\ req'[r].pc = pc

\* C23: a task is enqueued only by a Verify request at its .delay call, for
\* that request's Booking; a request reaches the .delay call only in the step
\* that persists its Booking as confirmed, which it reaches only through the
\* step that persists its Payment as Completed; and the step that enqueues
\* answers the request 200 while the task is in the queue, with no task run.
C23_EnqueueAfterPersist ==
    [][/\ Len(queue') > Len(queue) =>
             \E r \in Reqs :
                 /\ req[r].pc = "enqueue" /\ req[r].kind = "verify"
                 /\ queue' = Append(queue, req[r].booking.id)
                 /\ req'[r].pc = "done" /\ req'[r].response = 200
                 /\ call' = call
       /\ \A r \in Reqs :
             /\ MovesTo(r, "enqueue") =>
                   /\ req[r].pc = "save_booking"
                   /\ bookings'[req[r].booking.id].status = "confirmed"
             /\ MovesTo(r, "save_booking") => req[r].pc = "load_booking"
             /\ MovesTo(r, "load_booking") =>
                   /\ req[r].pc = "verify_gateway"
                   /\ payments'[req[r].tx_ref].status = "Completed"]_vars

\* C23's case: a Verify request has been answered 200 and its task is still in
\* the queue, after the worker ran an earlier task.
C23_Witness ==
    /\ \E r \in Reqs : /\ req[r].kind = "verify" /\ req[r].pc = "done"
                       /\ req[r].response = 200 /\ req[r].enq = "ok"
    /\ queue # << >>
    /\ call.op = "task" /\ call.booking_id \in DOMAIN bookings

\* C25: a Booking that started pending has status confirmed if and only if one
\* of its Payments has status Completed, in every reachable state in which no
\* request is being served (the states between the writes of a request are
\* left out).
C25_StatusMatchesPayments ==
    (\A r \in Reqs : req[r].pc \in {"idle", "done"}) =>
        \A b \in DOMAIN bookings :
            bookings[b].status = "confirmed"
                <=> \E t \in PaymentsOf(b) : payments[t].status = "Completed"

\* r is a Verify request that the gateway answered with success and that
\* takes a step
SuccessVerifyStep(r) ==
    /\ req'[r] # req[r]
    /\ req'[r].kind = "verify" /\ req'[r].data = "success"

\* C26: the steps of a Verify that the gateway answered with success change no
\* Payment but the one of its transaction id and no Booking but that
\* Payment's; the step after payment.booking.save() has that Booking
\* confirmed, whatever its status was.
C26_VerifyFrame ==
    [][\A r \in Reqs :
          SuccessVerifyStep(r) =>
             LET tx == req'[r].tx_ref
                 b == payments[tx].booking_id
             IN /\ \A t \in DOMAIN payments \ {tx} : payments'[t] = payments[t]
                /\ DOMAIN payments' = DOMAIN payments
                /\ \A b2 \in DOMAIN bookings \ {b} : bookings'[b2] = bookings[b2]
                /\ MovesTo(r, "enqueue") => bookings'[b].status = "confirmed"
                /\ req'[r].response = 200 => req[r].pc = "enqueue"]_vars

\* C26's case: a gateway-success Verify has returned 200 and its Booking, which
\* was cancelled or completed, is confirmed, the other Bookings being as they
\* were.
C26_Witness ==
    \E r \in Reqs :
        /\ req[r].kind = "verify" /\ req[r].pc = "done"
        /\ req[r].data = "success" /\ req[r].response = 200
        /\ bookings[payments[req[r].tx_ref].booking_id].status = "confirmed"
        /\ \E b \in DOMAIN bookings : bookings[b].status = "cancelled"

====
